---- MODULE Spec2Model ----
(***************************************************************************)
(* organize_media.py: the classification-and-deduplication pipeline.       *)
(*                                                                         *)
(* File names are sequences of one-character strings, so that stem/suffix  *)
(* splitting, lower-casing, sanitation, timestamp formatting and the       *)
(* collision counter are computed the way the Python code computes them.   *)
(* A content fingerprint (SHA-256 hex digest) is modelled by the content   *)
(* itself: equal bytes <=> equal digest.                                   *)
(***************************************************************************)
EXTENDS Integers, Sequences, FiniteSets, TLC

(***************************************************************************)
(* Bounds of the model                                                     *)
(***************************************************************************)
\* largest number of files in the walked source tree
MaxFiles == 3
\* longest input given to sanitized_name in SanSpec
MaxSanLen == 4

(***************************************************************************)
(* Characters and strings                                                  *)
(***************************************************************************)
Digits == <<"0","1","2","3","4","5","6","7","8","9">>

UpperCase ==
  <<"A","B","C","D","E","F","G","H","I","J","K","L","M",
    "N","O","P","Q","R","S","T","U","V","W","X","Y","Z">>

LowerCase ==
  <<"a","b","c","d","e","f","g","h","i","j","k","l","m",
    "n","o","p","q","r","s","t","u","v","w","x","y","z">>

\* the characters str.isspace() / the regex class \s accept (ASCII part used here)
Whitespace == {" ", "\t", "\n"}

IsDigit(c) == \E i \in 1..10 : Digits[i] = c

DigitVal(c) == (CHOOSE i \in 1..10 : Digits[i] = c) - 1

\* str.lower() on one character
lower_char(c) ==
  IF \E i \in 1..26 : UpperCase[i] = c
  THEN LowerCase[CHOOSE i \in 1..26 : UpperCase[i] = c]
  ELSE c

\* str.lower()
lower(s) == [i \in 1..Len(s) |-> lower_char(s[i])]

\* s[n:]
drop(s, n) == SubSeq(s, n + 1, Len(s))

\* str(counter): decimal digits of a natural number
RECURSIVE str(_)
str(n) == IF n < 10 THEN <<Digits[n + 1]>>
          ELSE str(n \div 10) \o <<Digits[(n % 10) + 1]>>

\* int(digits)
RECURSIVE int(_)
int(ds) == IF ds = <<>> THEN 0
           ELSE 10 * int(SubSeq(ds, 1, Len(ds) - 1)) + DigitVal(ds[Len(ds)])

\* zero-padded decimal of width w, as strftime writes %Y (w = 4) and %m %d %H %M %S (w = 2)
RECURSIVE zfill(_, _)
zfill(ds, w) == IF Len(ds) >= w THEN ds ELSE zfill(<<"0">> \o ds, w)

(***************************************************************************)
(* sanitized_name  (lines 134-138)                                         *)
(***************************************************************************)
RECURSIVE lstrip(_)
lstrip(s) == IF s # <<>> /\ Head(s) \in Whitespace THEN lstrip(Tail(s)) ELSE s

RECURSIVE rstrip(_)
rstrip(s) == IF s # <<>> /\ s[Len(s)] \in Whitespace
             THEN rstrip(SubSeq(s, 1, Len(s) - 1)) ELSE s

\* str.strip()
strip(s) == rstrip(lstrip(s))

\* s without its longest prefix of characters of cls
RECURSIVE skip_run(_, _)
skip_run(cls, s) == IF s # <<>> /\ Head(s) \in cls THEN skip_run(cls, Tail(s)) ELSE s

\* re.sub(r"[cls]+", "_", s): every maximal run of cls characters becomes one "_"
RECURSIVE re_sub_runs(_, _)
re_sub_runs(cls, s) ==
  IF s = <<>> THEN <<>>
  ELSE IF Head(s) \in cls THEN <<"_">> \o re_sub_runs(cls, skip_run(cls, Tail(s)))
  ELSE <<Head(s)>> \o re_sub_runs(cls, Tail(s))

\* mutant: the two substitutions in the other order
sanitized_name_swapped(name) ==
  re_sub_runs(Whitespace, re_sub_runs({"_"}, strip(name)))

sanitized_name(name) ==
  re_sub_runs({"_"}, re_sub_runs(Whitespace, strip(name)))

(***************************************************************************)
(* pathlib: Path.suffix, Path.stem                                         *)
(***************************************************************************)
\* name.rfind("."), 1-based; 0 when there is no dot
rfind_dot(name) ==
  IF \E i \in 1..Len(name) : name[i] = "."
  THEN CHOOSE i \in 1..Len(name) :
         name[i] = "." /\ \A j \in (i + 1)..Len(name) : name[j] # "."
  ELSE 0

suffix(name) ==
  LET i == rfind_dot(name)
  IN  IF 1 < i /\ i < Len(name) THEN SubSeq(name, i, Len(name)) ELSE <<>>

stem(name) ==
  LET i == rfind_dot(name)
  IN  IF 1 < i /\ i < Len(name) THEN SubSeq(name, 1, i - 1) ELSE name

(***************************************************************************)
(* categorize  (lines 48-97, 152-162)                                      *)
(***************************************************************************)
PHOTO_EXT ==
  {
    <<".","j","p","g">>, <<".","j","p","e","g">>, <<".","p","n","g">>,
    <<".","g","i","f">>, <<".","b","m","p">>, <<".","t","h","m">>,
    <<".","t","i","f","f">>, <<".","h","e","i","c">>, <<".","h","e","i","f">>,
    <<".","w","e","b","p">>, <<".","a","r","w">>, <<".","n","e","f">>,
    <<".","c","r","2">>
  }

VIDEO_EXT ==
  {
    <<".","m","p","4">>, <<".","m","o","v">>, <<".","a","v","i">>, <<".","m","k","v">>,
    <<".","w","m","v">>, <<".","f","l","v">>, <<".","w","e","b","m">>,
    <<".","m","p","e","g">>, <<".","m","p","g">>, <<".","m","4","v">>
  }

MUSIC_EXT ==
  {
    <<".","m","p","3">>, <<".","a","a","c">>, <<".","f","l","a","c">>,
    <<".","o","g","g">>, <<".","w","a","v">>, <<".","m","4","a">>, <<".","w","m","a">>
  }

PROGRAM_EXT ==
  {
    <<".","e","x","e">>, <<".","m","s","i">>, <<".","a","p","k">>, <<".","d","e","b">>,
    <<".","r","p","m">>, <<".","d","m","g">>, <<".","p","k","g">>, <<".","a","p","p">>,
    <<".","b","a","t">>, <<".","s","h">>, <<".","p","s","1">>, <<".","j","a","r">>
  }

\* the keys of CATEGORY_DIR
CATEGORY_DIR == {"photo", "video", "music", "program", "other"}

categorize(name) ==
  LET ext == lower(suffix(name))
  IN  IF ext \in PHOTO_EXT THEN "photo"
      ELSE IF ext \in VIDEO_EXT THEN "video"
      ELSE IF ext \in MUSIC_EXT THEN "music"
      ELSE IF ext \in PROGRAM_EXT THEN "program"
      ELSE "other"

(***************************************************************************)
(* datetime: strptime("%Y:%m:%d %H:%M:%S"), strftime("%Y%m%d_%H%M%S")      *)
(* An optional value is <<>> (None) or a one-element sequence.             *)
(***************************************************************************)
\* longest prefix of digits
RECURSIVE take_digits(_)
take_digits(s) ==
  IF s # <<>> /\ IsDigit(Head(s)) THEN <<Head(s)>> \o take_digits(Tail(s)) ELSE <<>>

IsLeap(y) == (y % 4 = 0 /\ y % 100 # 0) \/ y % 400 = 0

DaysInMonth(y, m) ==
  IF m = 2 THEN (IF IsLeap(y) THEN 29 ELSE 28)
  ELSE IF m \in {4, 6, 9, 11} THEN 30 ELSE 31

\* a field of one or two digits followed by the separator sep ("" = end of string);
\* <<>> when the text does not match, else <<[val, rest]>>
two_digit_field(s, sep) ==
  LET ds   == take_digits(s)
      rest == drop(s, Len(ds))
  IN  IF Len(ds) \notin {1, 2} THEN <<>>
      ELSE IF sep = "" THEN (IF rest = <<>> THEN <<[val |-> int(ds), rest |-> rest]>> ELSE <<>>)
      ELSE IF rest # <<>> /\ Head(rest) = sep
           THEN <<[val |-> int(ds), rest |-> Tail(rest)]>>
           ELSE <<>>

\* %d also accepts a space followed by one digit 1-9; then \s+ (the blank of the format)
day_field(s) ==
  LET padded == Len(s) >= 2 /\ s[1] = " " /\ IsDigit(s[2]) /\ s[2] # "0"
                /\ ~(Len(s) >= 3 /\ IsDigit(s[3]))
      body   == IF padded THEN Tail(s) ELSE s
      ds     == take_digits(body)
      rest   == drop(body, Len(ds))
      after  == skip_run(Whitespace, rest)
  IN  IF Len(ds) \notin {1, 2} \/ after = rest THEN <<>>
      ELSE <<[val |-> int(ds), rest |-> after]>>

\* datetime.strptime(s, "%Y:%m:%d %H:%M:%S"); <<>> stands for ValueError
strptime(s) ==
  LET ys == take_digits(s)
      r1 == drop(s, Len(ys))
  IN  IF Len(ys) # 4 \/ r1 = <<>> \/ Head(r1) # ":" THEN <<>>
      ELSE LET mo == two_digit_field(Tail(r1), ":")
      IN  IF mo = <<>> THEN <<>>
      ELSE LET dd == day_field(mo[1].rest)
      IN  IF dd = <<>> THEN <<>>
      ELSE LET hh == two_digit_field(dd[1].rest, ":")
      IN  IF hh = <<>> THEN <<>>
      ELSE LET mi == two_digit_field(hh[1].rest, ":")
      IN  IF mi = <<>> THEN <<>>
      ELSE LET ss == two_digit_field(mi[1].rest, "")
      IN  IF ss = <<>> THEN <<>>
      ELSE LET y == int(ys)
      IN  IF /\ y >= 1
             /\ mo[1].val \in 1..12
             /\ dd[1].val >= 1 /\ dd[1].val <= DaysInMonth(y, mo[1].val)
             /\ hh[1].val <= 23 /\ mi[1].val <= 59 /\ ss[1].val <= 59
          THEN <<[Y |-> y, m |-> mo[1].val, d |-> dd[1].val,
                  H |-> hh[1].val, M |-> mi[1].val, S |-> ss[1].val]>>
          ELSE <<>>

\* dt.strftime("%Y%m%d_%H%M%S")
strftime(dt) ==
  zfill(str(dt.Y), 4) \o zfill(str(dt.m), 2) \o zfill(str(dt.d), 2) \o <<"_">>
    \o zfill(str(dt.H), 2) \o zfill(str(dt.M), 2) \o zfill(str(dt.S), 2)

(***************************************************************************)
(* get_photo_datetime (lines 111-131) and the new name (lines 188-198)     *)
(*                                                                         *)
(* A source file is a record                                               *)
(*   id       its path under the source root (every file in a directory of *)
(*            its own, so os.walk may yield the files in any order)        *)
(*   name     the file name                                                *)
(*   content  its bytes (= its SHA-256 digest)                             *)
(*   readable FALSE when path.open / f.read raises                         *)
(*   mtime    <<dt>>, or <<>> when stat() / datetime.fromtimestamp raises  *)
(*   exif     state "error": Image.open or _getexif raises;                *)
(*            state "none": _getexif() returns None or {};                 *)
(*            state "tags": the two tags, <<>> for a missing or empty one  *)
(***************************************************************************)
\* mutant: the EXIF capture time is never used
get_photo_datetime_none(pilAvail, f) == <<>>

get_photo_datetime(pilAvail, f) ==
  IF ~pilAvail THEN <<>>
  ELSE IF f.exif.state # "tags" THEN <<>>
  ELSE LET dt_bytes == IF f.exif.DateTimeOriginal # <<>>
                       THEN f.exif.DateTimeOriginal ELSE f.exif.DateTime
       IN  IF dt_bytes # <<>> THEN strptime(dt_bytes) ELSE <<>>

\* lines 189-191: the datetime used for the name; <<>> when stat() raises
resolve_dt(pilAvail, f) ==
  LET dt == IF categorize(f.name) = "photo" THEN get_photo_datetime(pilAvail, f) ELSE <<>>
  IN  IF dt = <<>> THEN f.mtime ELSE dt

\* lines 188-198
new_name(pilAvail, f) ==
  IF categorize(f.name) \in {"photo", "video"}
  THEN strftime(resolve_dt(pilAvail, f)[1]) \o <<"_">>
         \o sanitized_name(stem(f.name)) \o lower(suffix(f.name))
  ELSE f.name

(***************************************************************************)
(* unique_path (lines 141-149) over the names present in dest_dir          *)
(***************************************************************************)
RECURSIVE probe(_, _, _, _, _)
probe(names, target, st, ext, counter) ==
  IF target \in names
  THEN probe(names, st \o <<"_">> \o str(counter) \o ext, st, ext, counter + 1)
  ELSE target

\* mutant: the counter starts at 0
unique_path_from0(names, filename) ==
  probe(names, filename, stem(filename), suffix(filename), 0)

unique_path(names, filename) ==
  probe(names, filename, stem(filename), suffix(filename), 1)

(***************************************************************************)
(* The source trees and destination roots the model draws from            *)
(***************************************************************************)
dt_2019 == [Y |-> 2019, m |-> 12, d |-> 31, H |-> 23, M |-> 59, S |-> 59]
dt_2020 == [Y |-> 2020, m |-> 1, d |-> 15, H |-> 9, M |-> 0, S |-> 0]
dt_2021 == [Y |-> 2021, m |-> 5, d |-> 2, H |-> 14, M |-> 30, S |-> 0]

\* "2021:05:02 14:30:00"
exif_2021 ==
  <<"2","0","2","1",":","0","5",":","0","2"," ","1","4",":","3","0",":","0","0">>
\* "2020:1:15 9:00:00" (fields not zero-padded)
exif_2020 ==
  <<"2","0","2","0",":","1",":","1","5"," ","9",":","0","0",":","0","0">>
\* "0000:00:00 00:00:00" (a camera whose clock was never set)
exif_zero ==
  <<"0","0","0","0",":","0","0",":","0","0"," ","0","0",":","0","0",":","0","0">>

NoExif(st) == [state |-> st, DateTimeOriginal |-> <<>>, DateTime |-> <<>>]

Universe ==
  { \* "my photo.JPG": photo with a capture time
    [id |-> 1, name |-> <<"m","y"," ","p","h","o","t","o",".","J","P","G">>,
     content |-> 1, readable |-> TRUE, mtime |-> <<dt_2019>>,
     exif |-> [state |-> "tags", DateTimeOriginal |-> exif_2021, DateTime |-> exif_2020]],
    \* "my_photo.jpg": photo whose DateTimeOriginal does not parse
    [id |-> 2, name |-> <<"m","y","_","p","h","o","t","o",".","j","p","g">>,
     content |-> 2, readable |-> TRUE, mtime |-> <<dt_2021>>,
     exif |-> [state |-> "tags", DateTimeOriginal |-> exif_zero, DateTime |-> exif_2020]],
    \* "v.MOV": video with the bytes of file 1
    [id |-> 3, name |-> <<"v",".","M","O","V">>,
     content |-> 1, readable |-> TRUE, mtime |-> <<dt_2020>>,
     exif |-> [state |-> "tags", DateTimeOriginal |-> exif_2021, DateTime |-> <<>>]],
    \* "s.mp3"
    [id |-> 4, name |-> <<"s",".","m","p","3">>,
     content |-> 1, readable |-> TRUE, mtime |-> <<dt_2020>>, exif |-> NoExif("error")],
    \* "s.mp3" in another directory, other bytes
    [id |-> 5, name |-> <<"s",".","m","p","3">>,
     content |-> 2, readable |-> TRUE, mtime |-> <<dt_2020>>, exif |-> NoExif("error")],
    \* "s_1.mp3" with the bytes of file 4
    [id |-> 6, name |-> <<"s","_","1",".","m","p","3">>,
     content |-> 1, readable |-> TRUE, mtime |-> <<dt_2020>>, exif |-> NoExif("error")],
    \* ".sh": a hidden file; Path.suffix is empty
    [id |-> 7, name |-> <<".","s","h">>,
     content |-> 2, readable |-> TRUE, mtime |-> <<dt_2020>>, exif |-> NoExif("error")],
    \* "i.SH": a program with the bytes of files 1, 3, 4 and 6
    [id |-> 8, name |-> <<"i",".","S","H">>,
     content |-> 1, readable |-> TRUE, mtime |-> <<dt_2020>>, exif |-> NoExif("error")],
    \* "README": cannot be read
    [id |-> 10, name |-> <<"R","E","A","D","M","E">>,
     content |-> 2, readable |-> FALSE, mtime |-> <<dt_2020>>, exif |-> NoExif("error")],
    \* "p.png": photo without EXIF whose mtime cannot be turned into a datetime
    [id |-> 9, name |-> <<"p",".","p","n","g">>,
     content |-> 2, readable |-> TRUE, mtime |-> <<>>, exif |-> NoExif("none")]
  }

\* bytes of a file that was in the destination root before the run
OldContent == 3
\* bytes left at the target by a copy that failed part-way
PartialContent == 0

\* what the destination root holds before organise is called
PreStates ==
  { {},
    { [cat |-> "music", name |-> <<"s",".","m","p","3">>, content |-> OldContent],
      [cat |-> "photo", content |-> OldContent,
       name |-> <<"2","0","2","1","0","5","0","2","_","1","4","3","0","0","0","_",
                  "m","y","_","p","h","o","t","o",".","j","p","g">>] } }

\* the paths of the files of Universe, and the file at each path
FileIds == {f.id : f \in Universe}

File == [i \in FileIds |-> CHOOSE f \in Universe : f.id = i]

\* categorize, resolve_dt and new_name are functions of the file (and of pil) alone:
\* their values for the files of Universe, computed once
CategoryOf == [i \in FileIds |-> categorize(File[i].name)]

ResolvedDtOf == [p \in BOOLEAN |-> [i \in FileIds |-> resolve_dt(p, File[i])]]

NewNameOf ==
  [p \in BOOLEAN |-> [i \in FileIds |->
     IF CategoryOf[i] \in {"photo", "video"} /\ ResolvedDtOf[p][i] = <<>>
     THEN <<>> ELSE new_name(p, File[i])]]

SanAlphabet == {" ", "\t", "_", "a", "."}

(***************************************************************************)
(* State                                                                   *)
(***************************************************************************)
VARIABLES
  pil,          \* Image is not None (Pillow could be imported, lines 36-39)
  tree,         \* the regular files under the source directory (their ids)
  pre,          \* pre[r]: the files under destination root r before run r
  run,          \* the organise call in progress (1, or 2 in SpecTwo)
  pc,           \* pc[r]: "idle", "start", "walk", "done" (returned), "aborted" (raised)
  seen_hashes,  \* the local seen_hashes of the call in progress
  dest,         \* dest[r]: files under destination root r: [cat, name, content]
  log,          \* log[r]: what run r logged per file, in the order of the walk
  san_pc, san_x, san_y, san_z   \* SanSpec: sanitized_name applied once and twice

vars == <<pil, tree, pre, run, pc, seen_hashes, dest, log, san_pc, san_x, san_y, san_z>>

san_vars == <<san_pc, san_x, san_y, san_z>>

Visited(r) == {log[r][i].file : i \in 1..Len(log[r])}

\* the files os.walk has not yielded yet
Pending == IF pc[run] = "walk" THEN {File[i] : i \in tree \ Visited(run)} ELSE {}

\* the names present in a category directory
Names(d, c) == {q.name : q \in {x \in d : x.cat = c}}

Event(f, ev, nn, np) == [file |-> f.id, ev |-> ev, new_name |-> nn, new_path |-> np]

NoHashes == [c \in CATEGORY_DIR |-> {}]

(***************************************************************************)
(* organise (lines 165-208)                                                *)
(***************************************************************************)
\* mutant: seen_hashes is tested whatever the category
is_duplicate_any_category(seen, c, h) == \E k \in CATEGORY_DIR : h \in seen[k]

\* mutant: the test is lost
is_duplicate_never(seen, c, h) == FALSE

\* line 183
is_duplicate(seen, c, h) == h \in seen[c]

\* shutil.copy2 to a path of a category directory (an existing file is replaced)
copy2(d, c, name, content) ==
  {q \in d : ~(q.cat = c /\ q.name = name)}
    \cup {[cat |-> c, name |-> name, content |-> content]}

\* the file gets past the duplicate test and a name can be built for it
Copyable(f) ==
  /\ f.readable
  /\ ~is_duplicate(seen_hashes, CategoryOf[f.id], f.content)
  /\ CategoryOf[f.id] \in {"photo", "video"} => ResolvedDtOf[pil][f.id] # <<>>

\* mutant: seen_hashes lives on from one call to the next
Begin_keep_hashes ==
  /\ pc[run] = "start"
  /\ pc' = [pc EXCEPT ![run] = "walk"]
  /\ UNCHANGED <<pil, tree, pre, run, seen_hashes, dest, log, san_vars>>

\* lines 166-173: the category directories are created (exist_ok), seen_hashes is empty
Begin ==
  /\ pc[run] = "start"
  /\ pc' = [pc EXCEPT ![run] = "walk"]
  /\ seen_hashes' = NoHashes
  /\ UNCHANGED <<pil, tree, pre, run, dest, log, san_vars>>

\* line 182: compute_sha256 raises; nothing catches it, organise ends with the exception
ReadError ==
  \E f \in Pending :
    /\ ~f.readable
    /\ log' = [log EXCEPT ![run] = Append(@, Event(f, "read_error", <<>>, <<>>))]
    /\ pc' = [pc EXCEPT ![run] = "aborted"]
    /\ UNCHANGED <<pil, tree, pre, run, seen_hashes, dest, san_vars>>

\* lines 183-185
SkipDuplicate ==
  \E f \in Pending :
    /\ f.readable
    /\ is_duplicate(seen_hashes, CategoryOf[f.id], f.content)
    /\ log' = [log EXCEPT ![run] = Append(@, Event(f, "duplicate", <<>>, <<>>))]
    /\ UNCHANGED <<pil, tree, pre, run, pc, seen_hashes, dest, san_vars>>

\* lines 186-191: the hash is recorded, then src_path.stat() raises; nothing catches it
StatError ==
  \E f \in Pending :
    /\ f.readable
    /\ ~is_duplicate(seen_hashes, CategoryOf[f.id], f.content)
    /\ CategoryOf[f.id] \in {"photo", "video"}
    /\ ResolvedDtOf[pil][f.id] = <<>>
    /\ seen_hashes' = [seen_hashes EXCEPT ![CategoryOf[f.id]] = @ \cup {f.content}]
    /\ log' = [log EXCEPT ![run] = Append(@, Event(f, "stat_error", <<>>, <<>>))]
    /\ pc' = [pc EXCEPT ![run] = "aborted"]
    /\ UNCHANGED <<pil, tree, pre, run, dest, san_vars>>

\* mutant: the file is copied to dest_subdir / new_name, whatever is there
Copied_overwrite ==
  \E f \in Pending :
    /\ Copyable(f)
    /\ LET c  == CategoryOf[f.id]
           nn == NewNameOf[pil][f.id]
       IN  /\ seen_hashes' = [seen_hashes EXCEPT ![c] = @ \cup {f.content}]
           /\ dest' = [dest EXCEPT ![run] = copy2(@, c, nn, f.content)]
           /\ log' = [log EXCEPT ![run] = Append(@, Event(f, "copied", nn, nn))]
    /\ UNCHANGED <<pil, tree, pre, run, pc, san_vars>>

\* lines 186-204, copy2 returns
Copied ==
  \E f \in Pending :
    /\ Copyable(f)
    /\ LET c  == CategoryOf[f.id]
           nn == NewNameOf[pil][f.id]
           np == unique_path(Names(dest[run], c), nn)
       IN  /\ seen_hashes' = [seen_hashes EXCEPT ![c] = @ \cup {f.content}]
           /\ IF np \notin Names(dest[run], c)
              THEN /\ dest' = [dest EXCEPT ![run] = copy2(@, c, np, f.content)]
                   /\ log' = [log EXCEPT ![run] = Append(@, Event(f, "copied", nn, np))]
              ELSE /\ UNCHANGED dest
                   /\ log' = [log EXCEPT ![run] = Append(@, Event(f, "exists", nn, np))]
    /\ UNCHANGED <<pil, tree, pre, run, pc, san_vars>>

\* lines 186-206, copy2 raises: nothing or a truncated file is left at new_path
CopyFailed ==
  \E f \in Pending, residue \in BOOLEAN :
    /\ Copyable(f)
    /\ LET c  == CategoryOf[f.id]
           nn == NewNameOf[pil][f.id]
           np == unique_path(Names(dest[run], c), nn)
       IN  /\ np \notin Names(dest[run], c)
           /\ seen_hashes' = [seen_hashes EXCEPT ![c] = @ \cup {f.content}]
           /\ dest' = IF residue
                      THEN [dest EXCEPT ![run] = copy2(@, c, np, PartialContent)]
                      ELSE dest
           /\ log' = [log EXCEPT ![run] = Append(@, Event(f, "copy_failed", nn, np))]
    /\ UNCHANGED <<pil, tree, pre, run, pc, san_vars>>

\* line 208: os.walk is exhausted
Return ==
  /\ pc[run] = "walk"
  /\ tree \ Visited(run) = {}
  /\ pc' = [pc EXCEPT ![run] = "done"]
  /\ UNCHANGED <<pil, tree, pre, run, seen_hashes, dest, log, san_vars>>

\* lines 211-232 once more: the script is run again on the same source directory
\* with the second destination root
SecondRun ==
  /\ run = 1
  /\ pc[1] \in {"done", "aborted"}
  /\ run' = 2
  /\ pc' = [pc EXCEPT ![2] = "start"]
  /\ UNCHANGED <<pil, tree, pre, seen_hashes, dest, log, san_vars>>

\* sanitized_name applied to the input, then to its own result
SanitizeOnce ==
  /\ san_pc = "input"
  /\ san_y' = sanitized_name(san_x)
  /\ san_pc' = "once"
  /\ UNCHANGED <<pil, tree, pre, run, pc, seen_hashes, dest, log, san_x, san_z>>

SanitizeAgain ==
  /\ san_pc = "once"
  /\ san_z' = sanitized_name(san_y)
  /\ san_pc' = "twice"
  /\ UNCHANGED <<pil, tree, pre, run, pc, seen_hashes, dest, log, san_x, san_y>>

(***************************************************************************)
(* Specifications                                                          *)
(***************************************************************************)
Trees == {t \in SUBSET FileIds : Cardinality(t) <= MaxFiles}

InitCommon ==
  /\ pil \in BOOLEAN
  /\ tree \in Trees
  /\ run = 1
  /\ pc = <<"start", "idle">>
  /\ seen_hashes = NoHashes
  /\ dest = pre
  /\ log = << <<>>, <<>> >>
  /\ san_pc = "off" /\ san_x = <<>> /\ san_y = <<>> /\ san_z = <<>>

\* one run, into a destination root that may already hold files
Init == (\E p \in PreStates : pre = <<p, {}>>) /\ InitCommon

Next == Begin \/ ReadError \/ SkipDuplicate \/ StatError \/ Copied \/ CopyFailed \/ Return

Spec == Init /\ [][Next]_vars

\* two runs over the same tree into two fresh destination roots; no copy fails
InitTwo == pre = <<{}, {}>> /\ InitCommon

NextTwo == Begin \/ ReadError \/ SkipDuplicate \/ StatError \/ Copied \/ Return \/ SecondRun

SpecTwo == InitTwo /\ [][NextTwo]_vars

\* sanitized_name on every string of at most MaxSanLen characters of SanAlphabet
InitSan ==
  /\ pil = FALSE /\ tree = {} /\ pre = <<{}, {}>> /\ run = 1
  /\ pc = <<"idle", "idle">> /\ seen_hashes = NoHashes /\ dest = pre
  /\ log = << <<>>, <<>> >>
  /\ san_pc = "input"
  /\ san_x \in UNION {[1..k -> SanAlphabet] : k \in 0..MaxSanLen}
  /\ san_y = <<>> /\ san_z = <<>>

NextSan == SanitizeOnce \/ SanitizeAgain

SanSpec == InitSan /\ [][NextSan]_vars

(***************************************************************************)
(* Properties                                                              *)
(***************************************************************************)
ContentOf == [i \in FileIds |-> File[i].content]

Cat(i) == CategoryOf[i]

Events(r) == 1..Len(log[r])

\* events i and j of run r are about files of one category with the same bytes
SameCatContent(r, i, j) ==
  /\ Cat(log[r][i].file) = Cat(log[r][j].file)
  /\ ContentOf[log[r][i].file] = ContentOf[log[r][j].file]

\* the files run r added to its destination root
Written(r) == dest[r] \ pre[r]

\* stem_k.ext
Suffixed(base, k) == stem(base) \o <<"_">> \o str(k) \o suffix(base)

\* C1: every fingerprint in seen_hashes[c] is the content of a file this run has
\* copied successfully into category c (so a failed copy leaves the index as it was).
C1_HashOnlyAfterCopy ==
  \A c \in CATEGORY_DIR : \A h \in seen_hashes[c] :
    \E i \in Events(run) :
      /\ log[run][i].ev = "copied"
      /\ Cat(log[run][i].file) = c
      /\ ContentOf[log[run][i].file] = h

\* C2: within one run no two files of the same category with identical content are
\* both copied, and no content appears twice among the files the run wrote into a
\* category directory.
C2_NoDuplicateCopied ==
  \A r \in 1..2 :
    /\ \A i, j \in Events(r) :
         (i < j /\ log[r][i].ev = "copied" /\ log[r][j].ev = "copied")
           => ~SameCatContent(r, i, j)
    /\ \A x, y \in Written(r) :
         (x.cat = y.cat /\ x.content = y.content /\ x.content # PartialContent)
           => x = y

C2_Witness ==
  \E i, j \in Events(run) :
    /\ i < j /\ SameCatContent(run, i, j)
    /\ log[run][i].ev = "copied" /\ log[run][j].ev = "duplicate"

\* C3: when organise has returned, every file whose own copy did not fail was copied,
\* unless its content had been copied successfully into its category earlier in the run.
C3_OthersStillCopied ==
  pc[run] = "done" =>
    \A j \in Events(run) :
      log[run][j].ev # "copy_failed" =>
        \/ log[run][j].ev = "copied"
        \/ \E i \in 1..(j - 1) :
             log[run][i].ev = "copied" /\ SameCatContent(run, i, j)

\* C4: no per-file error (read, stat or copy) ends organise before the walk is over:
\* the file is logged as failed and the run goes on.
C4_NoPerFileAbort == pc[run] # "aborted"

\* C5: two visited files with identical content and different categories are both
\* copied, unless the copy (or read, or stat) of one of them failed or a file of its own
\* category with that content came before it: a file of another category never makes
\* a file a duplicate.
Hindered(r, k) ==
  \/ log[r][k].ev \in {"copy_failed", "read_error", "stat_error"}
  \/ \E m \in 1..(k - 1) : SameCatContent(r, m, k)

C5_CrossCategoryIndependent ==
  \A i, j \in Events(run) :
    ( /\ i # j
      /\ ContentOf[log[run][i].file] = ContentOf[log[run][j].file]
      /\ Cat(log[run][i].file) # Cat(log[run][j].file)
      /\ ~Hindered(run, i) /\ ~Hindered(run, j) )
    => (log[run][i].ev = "copied" /\ log[run][j].ev = "copied")

C5_Witness ==
  \E i, j \in Events(run) :
    /\ i < j
    /\ ContentOf[log[run][i].file] = ContentOf[log[run][j].file]
    /\ Cat(log[run][i].file) # Cat(log[run][j].file)
    /\ log[run][i].ev = "copied" /\ log[run][j].ev = "copied"

\* C6: every step keeps every file of the destination root, name and content, and a
\* file it adds goes to a path that did not exist before the step.
C6_NoOverwrite ==
  [][ \A r \in 1..2 :
        /\ dest[r] \subseteq dest'[r]
        /\ \A x \in dest'[r] \ dest[r] : x.name \notin Names(dest[r], x.cat) ]_vars

\* a file was copied although its name was taken by a file older than the run,
\* and that file is still there
C6_Witness ==
  \E i \in Events(1) : \E x \in pre[1] :
    /\ log[1][i].ev = "copied"
    /\ x.cat = Cat(log[1][i].file) /\ x.name = log[1][i].new_name
    /\ x \in dest[1]
    /\ [cat |-> x.cat, name |-> log[1][i].new_path, content |-> ContentOf[log[1][i].file]]
         \in dest[1]

\* C7: a file is written under its destination name when that name is free in the
\* category directory, else under stem_k.ext for the smallest k >= 1 that is free; and
\* two files with distinct content and the same destination name, the only ones of
\* their category in a fresh directory, end up as name and name_1 with their contents.
SmallestFree(names, base) ==
  IF base \notin names THEN base
  ELSE Suffixed(base,
         CHOOSE k \in 1..(Cardinality(names) + 1) :
           /\ Suffixed(base, k) \notin names
           /\ \A m \in 1..(k - 1) : Suffixed(base, m) \in names)

C7_StepOK ==
  \A x \in dest'[run] \ dest[run] :
    LET e == log'[run][Len(log'[run])]
    IN  /\ x.cat = Cat(e.file)
        /\ x.name = SmallestFree(Names(dest[run], x.cat), e.new_name)
        /\ x.name = e.new_path
        /\ e.ev = "copied" => x.content = ContentOf[e.file]

C7_PairOK ==
  \A i, j \in Events(run) :
    LET a == log[run][i]
        b == log[run][j]
        c == Cat(a.file)
    IN  ( /\ i < j /\ a.ev = "copied" /\ b.ev = "copied"
          /\ Cat(b.file) = c /\ a.new_name = b.new_name
          /\ Names(pre[run], c) = {}
          /\ \A m \in Events(run) : Cat(log[run][m].file) = c => m \in {i, j} )
        => /\ a.new_path = a.new_name
           /\ b.new_path = Suffixed(a.new_name, 1)
           /\ {x \in dest[run] : x.cat = c}
                = { [cat |-> c, name |-> a.new_name, content |-> ContentOf[a.file]],
                    [cat |-> c, name |-> Suffixed(a.new_name, 1),
                     content |-> ContentOf[b.file]] }

C7_CollisionResolution == [][C7_StepOK]_vars /\ []C7_PairOK

C7_Witness ==
  \E i, j \in Events(run) :
    /\ i < j /\ log[run][i].ev = "copied" /\ log[run][j].ev = "copied"
    /\ log[run][i].new_name = log[run][j].new_name
    /\ ContentOf[log[run][i].file] # ContentOf[log[run][j].file]
    /\ log[run][i].new_path = log[run][i].new_name
    /\ log[run][j].new_path = Suffixed(log[run][i].new_name, 1)

\* C8 as claimed: two completed runs over the same tree into two fresh destination
\* roots, without copy failures, leave the same (category, name, content) tuples,
\* whatever the order in which each run visited the files.
C8_OrderIndependent ==
  (pc[1] = "done" /\ pc[2] = "done") => dest[1] = dest[2]

\* C8 as amended: two runs over the same tree into two fresh destination roots,
\* without copy failures, that visit the files in the same order leave the same
\* (category, name, content) tuples.
WalkOrder(r) == [i \in Events(r) |-> log[r][i].file]

C8_SameOrderSameResult ==
  ( /\ pc[1] \in {"done", "aborted"} /\ pc[2] \in {"done", "aborted"}
    /\ WalkOrder(1) = WalkOrder(2) )
  => dest[1] = dest[2]

C8_Witness ==
  /\ pc[1] = "done" /\ pc[2] = "done"
  /\ WalkOrder(1) = WalkOrder(2)
  /\ dest[1] = dest[2]
  /\ \E i, j \in Events(2) :
       /\ i < j /\ log[2][i].ev = "copied" /\ log[2][j].ev = "copied"
       /\ log[2][j].new_path # log[2][j].new_name

\* C9: before collision allocation a photo or video is named
\* <YYYYMMDD_HHMMSS>_<sanitized stem><lower-cased suffix>, the timestamp being the EXIF
\* capture time for a photo whose capture time can be read and parsed and the
\* modification time otherwise (always for a video); any other file keeps its name.
CaptureTag(f) ==
  IF f.exif.DateTimeOriginal # <<>> THEN f.exif.DateTimeOriginal ELSE f.exif.DateTime

\* "20210502_143000_my_photo.jpg"
Example_20210502_143000_my_photo_jpg ==
  <<"2","0","2","1","0","5","0","2","_","1","4","3","0","0","0","_",
    "m","y","_","p","h","o","t","o",".","j","p","g">>

\* "20200115_090000_"
Example_20200115_090000_ ==
  <<"2","0","2","0","0","1","1","5","_","0","9","0","0","0","0","_">>

\* the name the rule gives each photo or video of Universe, with and without Pillow;
\* <<>> when the rule has no timestamp to offer
RuleName ==
  [p \in BOOLEAN |-> [i \in {k \in FileIds : CategoryOf[k] \in {"photo", "video"}} |->
     LET f      == File[i]
         usable == /\ p /\ f.exif.state = "tags"
                   /\ CaptureTag(f) # <<>> /\ strptime(CaptureTag(f)) # <<>>
         ts     == IF CategoryOf[i] = "photo" /\ usable
                   THEN strptime(CaptureTag(f)) ELSE f.mtime
     IN  IF ts = <<>> THEN <<>>
         ELSE strftime(ts[1]) \o <<"_">> \o sanitized_name(stem(f.name))
                \o lower(suffix(f.name))]]

C9_NamingRule ==
  \A i \in Events(run) :
    LET e == log[run][i]
        f == e.file
    IN  e.ev \in {"copied", "copy_failed"} =>
          /\ Cat(f) \in {"photo", "video"} =>
               (RuleName[pil][f] # <<>> /\ e.new_name = RuleName[pil][f])
          /\ Cat(f) \in {"music", "program", "other"} => e.new_name = File[f].name
          /\ (f = 1 /\ pil) => e.new_name = Example_20210502_143000_my_photo_jpg
          /\ (f = 2) => e.new_name = Example_20210502_143000_my_photo_jpg
          /\ (f = 3) => SubSeq(e.new_name, 1, 16) = Example_20200115_090000_

C9_Witness ==
  /\ pil
  /\ \E i, j, k \in Events(run) :
       /\ log[run][i].file = 1 /\ log[run][i].ev = "copied"
       /\ log[run][j].file = 3 /\ log[run][j].ev = "copied"
       /\ Cat(log[run][k].file) \in {"program", "other"} /\ log[run][k].ev = "copied"

\* C10: sanitized_name(sanitized_name(x)) = sanitized_name(x); the result holds no
\* whitespace and no two adjacent underscores, and the characters of x other than
\* whitespace and underscores are kept, in order.
Kept(s) == SelectSeq(s, LAMBDA ch : ch \notin Whitespace \cup {"_"})

C10_SanitizeIdempotent ==
  /\ san_pc \in {"once", "twice"} =>
       /\ \A i \in 1..Len(san_y) : san_y[i] \notin Whitespace
       /\ \A i \in 1..(Len(san_y) - 1) : ~(san_y[i] = "_" /\ san_y[i + 1] = "_")
       /\ Kept(san_y) = Kept(san_x)
  /\ san_pc = "twice" => san_z = san_y

C10_Witness ==
  /\ san_pc = "twice"
  /\ san_y # san_x
  /\ \E i, j \in 1..Len(san_x) : san_x[i] \in Whitespace /\ san_x[j] = "_"
  /\ Kept(san_x) # <<>>

====
